---- MODULE Spec2Model ----
(***************************************************************************)
(* The client-side API access layer of the rental management frontend:     *)
(* the Credential Store (localStorage), the Axios request interceptor that *)
(* attaches the bearer token, the response interceptor that refreshes the  *)
(* access token once on a 401 and retries, and the login / logout          *)
(* functions of services/api.js.                                           *)
(*                                                                         *)
(* Execution is the browser's event loop: one action of the model is one   *)
(* macrotask (a user event or the arrival of an HTTP response) together    *)
(* with every promise continuation it triggers.  The server is opaque: it  *)
(* may answer any request with any status and any token.                   *)
(***************************************************************************)
EXTENDS Integers, FiniteSets, Sequences, TLC

VARIABLES localStorage, req, href, user, loading, before,
          tenants, users, pageLoading, showModal, editingTenant, form,
          dialog, route, lastFetch

\* The state of services/api.js and of the AuthProvider component.
apiVars == <<localStorage, req, href>>
ctx == <<user, loading, before>>
\* The state of the page the router shows and of the form mounted in it;
\* lastFetch records the slot in which fetchTenants was last called.
view == <<tenants, users, pageLoading, showModal, editingTenant, form,
          dialog, route, lastFetch>>
vars == <<localStorage, req, href, user, loading, before, view>>

---------------------------------------------------------------------------
(* Bounds *)

\* Number of request slots: how many calls through the client overlap.
NReq == 2
\* Requests a page of the application keeps in flight at a time.
NApp == 1

Req == 1..NReq

\* The values the opaque server can issue.  The client only stores, compares
\* for presence and forwards them, so two access tokens (an old and a new
\* one), one refresh token and one profile exercise every branch.
AccessTokens == {"A1", "A2"}
RefreshTokens == {"R1"}
Profiles == {"U1"}

---------------------------------------------------------------------------
(* Values *)

\* localStorage.getItem of a missing key (null), an unset header, an unset local.
None == "none"

\* error.response?.status === 401
AuthFailure == 401

\* error.response is undefined (network failure): error.response?.status is undefined
NoResponse == 0

\* Statuses with which the server can fail a request sent through api.
ErrorStatuses == {400, AuthFailure, 500, NoResponse}

\* Ways the refresh call can fail: refresh token rejected, or network failure.
RefreshErrorStatuses == {AuthFailure, NoResponse}

\* error.response.data for each failure status (undefined without a response).
ResponseData(status) ==
    CASE status = 400         -> "field errors"
      [] status = AuthFailure -> "detail"
      [] status = NoResponse  -> None
      [] OTHER                -> "server error"

\* Variant: the profile object is stored without JSON.stringify.
JSONstringifyOmitted(profile) == "[object Object]"

\* JSON.stringify of a user profile.
JSONstringify(profile) == "{" \o profile \o "}"

---------------------------------------------------------------------------
(* Credential Store: the three localStorage entries *)

EmptyStorage == [access_token |-> None, refresh_token |-> None, user |-> None]

setItem(ls, key, value) == [ls EXCEPT ![key] = value]
removeItem(ls, key) == [ls EXCEPT ![key] = None]

\* Modal.js 400: localStorage.setItem('access_token', access)
SaveAccessDropped(ls, access) == ls
SaveAccessRotating(ls, access) ==
    removeItem(setItem(ls, "access_token", access), "refresh_token")
SaveAccess(ls, access) == setItem(ls, "access_token", access)

\* Modal.js 408-410: the three removeItem calls of the refresh catch block
ClearAfterRefreshErrorTokensOnly(ls) ==
    removeItem(removeItem(ls, "access_token"), "refresh_token")
ClearAfterRefreshError(ls) ==
    removeItem(removeItem(removeItem(ls, "access_token"), "refresh_token"), "user")

\* Modal.js 431-432: login stores both tokens
SaveTokens(ls, access, refresh) ==
    setItem(setItem(ls, "access_token", access), "refresh_token", refresh)

\* Variant: logout removes the tokens and leaves the cached profile.
ClearStorageLeavingUser(ls) ==
    removeItem(removeItem(ls, "access_token"), "refresh_token")

\* Modal.js 454-458: logout
ClearStorage(ls) ==
    removeItem(removeItem(removeItem(ls, "access_token"), "refresh_token"), "user")

---------------------------------------------------------------------------
(* Requests *)

\* The settled value of the promise a caller awaits.
Pending == [settled |-> "pending", from |-> None, status |-> 0, attempt |-> 0,
            data |-> None]
Fulfilled(attempt, data) ==
    [settled |-> "resolved", from |-> "request", status |-> 200,
     attempt |-> attempt, data |-> data]
\* Promise.reject(error): `from` tells the error of the request itself
\* (error) from the error of the refresh call (refreshError).
Rejected(from, status, attempt) ==
    [settled |-> "rejected", from |-> from, status |-> status,
     attempt |-> attempt, data |-> ResponseData(status)]

\* A slot with no request.
Idle == [pc |-> "idle", op |-> None, method |-> None, url |-> None,
         body |-> None, Authorization |-> None,
         retry |-> FALSE, attempt |-> 0, refreshes |-> 0, refreshBody |-> None,
         error |-> 0, access |-> None, result |-> Pending]

\* The config of a new request: no Authorization header, _retry unset.
Config(op, url) == [Idle EXCEPT !.pc = "sent", !.op = op, !.url = url]

\* Variant: the _retry mark is not set on the request before it is rejected.
SettleUnmarked(config, result) == [Idle EXCEPT !.pc = "done", !.result = result]

\* The caller's promise settles; of the request object only the _retry mark
\* is kept (it travels with the error as error.config).
Settle(config, result) ==
    [Idle EXCEPT !.pc = "done", !.result = result, !.retry = config.retry]

\* Modal.js 353-369: api.interceptors.request.use
RequestInterceptorNoHeader(config, ls) == config
RequestInterceptor(config, ls) ==
    IF ls.access_token # None
    THEN [config EXCEPT !.Authorization = ls.access_token]
    ELSE config

\* api(config): the request passes the request interceptor and goes on the wire.
api(config, ls) ==
    [RequestInterceptor(config, ls) EXCEPT !.pc = "sent", !.attempt = @ + 1]

\* Modal.js 386: error.response?.status === 401 && !originalRequest._retry
ShouldRecoverIgnoringRetry(status, retry) == status = AuthFailure
ShouldRecoverAnyFailure(status, retry) == status # NoResponse /\ ~retry
\* Variant: once a refresh has failed on this page, recovery stays off.
ShouldRecoverUntilFailed(status, retry) ==
    status = AuthFailure /\ ~retry /\ href # "/login"
ShouldRecover(status, retry) == status = AuthFailure /\ ~retry

\* Modal.js 393: if (refreshToken)
HasRefreshTokenAlways(ls) == TRUE
HasRefreshToken(ls) == ls.refresh_token # None

\* Modal.js 404: `return api(originalRequest)` is not awaited inside the try,
\* so a rejection of the retried request is not caught by the catch block.
RetryAwaitedInTry == TRUE
RetryCaughtByTry == FALSE

---------------------------------------------------------------------------
(* Initial state: a fresh page with an empty Credential Store *)

\* useState([]): a list with no rows.
EmptyList == "[]"

\* useState(null): no tenant is being edited.
NoTenant == 0

\* useState({}): the errors of a form.  `fields` are the fields validateForm
\* reported, `data` a server error body stored in their place.
NoErrors == [fields |-> {}, data |-> None]

\* Tenants.js 363-364, Register.js 28-29: the state of a form as it mounts;
\* `request` is the slot of the request this form instance awaits.
NoForm == [loading |-> FALSE, errors |-> NoErrors, request |-> 0]

\* No page of the application is modelled: the page variables at rest.
NoView ==
    /\ tenants = EmptyList
    /\ users = EmptyList
    /\ pageLoading = FALSE
    /\ showModal = FALSE
    /\ editingTenant = NoTenant
    /\ form = NoForm
    /\ dialog = None
    /\ route = "/"
    /\ lastFetch = 0

\* The store as it was when a login call in flight was made (kept per slot
\* while AuthProvider.login is pending).
NoSnapshot == [access_token |-> "-", refresh_token |-> "-", user |-> "-"]

Init ==
    /\ localStorage = EmptyStorage
    /\ req = [r \in Req |-> Idle]
    /\ href = "/"
    /\ user = None
    /\ loading = FALSE
    /\ before = [r \in Req |-> NoSnapshot]
    /\ NoView

\* Slot r can take a new request: it holds none in flight, and (slot numbers
\* carry no meaning) it is the lowest such slot.
Free(r) ==
    /\ req[r].pc \in {"idle", "done"}
    /\ \A q \in Req : q < r => req[q].pc \notin {"idle", "done"}

---------------------------------------------------------------------------
(* Operations *)

\* Modal.js 476-510: a Resource Client call (getAll, create, ...) through api.
crud(r) ==
    /\ Free(r)
    /\ req' = [req EXCEPT ![r] = api(Config("crud", "/tenants/"), localStorage)]
    /\ UNCHANGED <<localStorage, href>>

\* Variant: the login request is exempt from recovery (sent as already
\* retried).
loginExempt(r) ==
    /\ Free(r)
    /\ req' = [req EXCEPT ![r] =
           api([Config("login", "/auth/login/") EXCEPT !.retry = TRUE],
               localStorage)]
    /\ UNCHANGED <<localStorage, href>>

\* Modal.js 426-427: login posts the credentials through api.
login(r) ==
    /\ Free(r)
    /\ req' = [req EXCEPT ![r] = api(Config("login", "/auth/login/"), localStorage)]
    /\ UNCHANGED <<localStorage, href>>

\* Modal.js 454-458: logout.
logout ==
    /\ localStorage' = ClearStorage(localStorage)
    /\ UNCHANGED <<req, href>>

\* Modal.js 378-381 and 478-479: a Resource Client call is answered 2xx.
crudFulfilled(r) ==
    /\ req[r].pc = "sent"
    /\ req[r].op = "crud"
    /\ req' = [req EXCEPT ![r] = Settle(@, Fulfilled(@.attempt, "rows"))]
    /\ UNCHANGED <<localStorage, href>>

\* Modal.js 428-435: the login call is answered 2xx: both tokens are stored
\* and the current-user request is sent.
loginFulfilled(r, access, refresh) ==
    /\ req[r].pc = "sent"
    /\ req[r].url = "/auth/login/"
    /\ localStorage' = SaveTokens(localStorage, access, refresh)
    /\ req' = [req EXCEPT ![r] = api(Config("login", "/auth/user/"), localStorage')]
    /\ UNCHANGED href

\* Modal.js 435-438: the current-user call of login is answered 2xx.
loginUserFulfilled(r, profile) ==
    /\ req[r].pc = "sent"
    /\ req[r].op = "login"
    /\ req[r].url = "/auth/user/"
    /\ localStorage' = setItem(localStorage, "user", JSONstringify(profile))
    /\ req' = [req EXCEPT ![r] = Settle(@, Fulfilled(@.attempt, profile))]
    /\ UNCHANGED href

\* Modal.js 382-417: the response interceptor's error handler, up to its
\* first await.
responseRejected(r, status) ==
    /\ req[r].pc = "sent"
    /\ IF ShouldRecover(status, req[r].retry)
       THEN IF HasRefreshToken(localStorage)
            THEN \* 394: axios.post(refresh) is in flight
                 /\ req' = [req EXCEPT ![r] =
                        [@ EXCEPT !.pc = "refreshing", !.retry = TRUE,
                                  !.error = status, !.refreshes = @ + 1,
                                  !.refreshBody = localStorage.refresh_token]]
                 /\ UNCHANGED <<localStorage, href>>
            ELSE \* 387, 416: marked as retried; no refresh token, reject
                 \* the original error
                 /\ req' = [req EXCEPT ![r] =
                        Settle([@ EXCEPT !.retry = TRUE],
                               Rejected("request", status, @.attempt))]
                 /\ UNCHANGED <<localStorage, href>>
       ELSE IF req[r].retry /\ req[r].attempt > 1 /\ RetryCaughtByTry
            THEN \* a retry awaited inside the try would land in the catch
                 /\ localStorage' = ClearAfterRefreshError(localStorage)
                 /\ href' = "/login"
                 /\ req' = [req EXCEPT ![r] =
                        Settle(@, Rejected("request", status, @.attempt))]
            ELSE \* 416: return Promise.reject(error)
                 /\ req' = [req EXCEPT ![r] =
                        Settle(@, Rejected("request", status, @.attempt))]
                 /\ UNCHANGED <<localStorage, href>>

\* Variant: the retry is sent before the new access token is stored, so the
\* request interceptor reads the old one.
refreshFulfilledRetryFirst(r, access) ==
    /\ req[r].pc = "refreshing"
    /\ req' = [req EXCEPT ![r] =
           api([@ EXCEPT !.access = access, !.Authorization = access,
                         !.refreshBody = None],
               localStorage)]
    /\ localStorage' = SaveAccess(localStorage, access)
    /\ UNCHANGED href

\* Modal.js 398-404: the refresh call is answered 2xx with { access }.
refreshFulfilled(r, access) ==
    /\ req[r].pc = "refreshing"
    /\ localStorage' = SaveAccess(localStorage, access)
    /\ req' = [req EXCEPT ![r] =
           api([@ EXCEPT !.access = access, !.Authorization = access,
                         !.refreshBody = None],
               localStorage')]
    /\ UNCHANGED href

\* Variant: the refresh call goes through the intercepted client, so its own
\* 401 starts another refresh call.
refreshRejectedIntercepted(r, status) ==
    /\ req[r].pc = "refreshing"
    /\ IF status = AuthFailure /\ HasRefreshToken(localStorage)
       THEN /\ req' = [req EXCEPT ![r] = [@ EXCEPT !.refreshes = @ + 1]]
            /\ UNCHANGED <<localStorage, href>>
       ELSE /\ localStorage' = ClearAfterRefreshError(localStorage)
            /\ href' = "/login"
            /\ req' = [req EXCEPT ![r] =
                   Settle(@, Rejected("refresh", status, @.attempt))]

\* Variant: the catch clears the store and stays on the page.
refreshRejectedInPlace(r, status) ==
    /\ req[r].pc = "refreshing"
    /\ localStorage' = ClearAfterRefreshError(localStorage)
    /\ href' = href
    /\ req' = [req EXCEPT ![r] = Settle(@, Rejected("refresh", status, @.attempt))]

\* Modal.js 406-413: the refresh call fails.
refreshRejected(r, status) ==
    /\ req[r].pc = "refreshing"
    /\ localStorage' = ClearAfterRefreshError(localStorage)
    /\ href' = "/login"
    /\ req' = [req EXCEPT ![r] = Settle(@, Rejected("refresh", status, @.attempt))]

\* services/api.js used on its own: the AuthProvider state does not move.
Next ==
    \/ \E r \in Req : crud(r) /\ UNCHANGED <<ctx, view>>
    \/ \E r \in Req : login(r) /\ UNCHANGED <<ctx, view>>
    \/ logout /\ UNCHANGED <<ctx, view>>
    \/ \E r \in Req : crudFulfilled(r) /\ UNCHANGED <<ctx, view>>
    \/ \E r \in Req, a \in AccessTokens, f \in RefreshTokens :
          loginFulfilled(r, a, f) /\ UNCHANGED <<ctx, view>>
    \/ \E r \in Req, p \in Profiles : loginUserFulfilled(r, p) /\ UNCHANGED <<ctx, view>>
    \/ \E r \in Req, s \in ErrorStatuses : responseRejected(r, s) /\ UNCHANGED <<ctx, view>>
    \/ \E r \in Req, a \in AccessTokens : refreshFulfilled(r, a) /\ UNCHANGED <<ctx, view>>
    \/ \E r \in Req, s \in RefreshErrorStatuses :
          refreshRejected(r, s) /\ UNCHANGED <<ctx, view>>

Spec == Init /\ [][Next]_vars

---------------------------------------------------------------------------
(* The Resource Client: Modal.js 476-510 *)

ResourceNames == {"tenants", "units"}
ResourceIds == {1, 2}
QueryParams == {None, "search=a"}
Payloads == {"data"}
ResponseBodies == {"row", "rows"}

\* Modal.js 476-480: api.get(`/${resource}/`, { params })
getAll(resource, params) ==
    [Config("getAll", "/" \o resource \o "/") EXCEPT
        !.method = "GET", !.body = params]

\* Modal.js 482-486: api.get(`/${resource}/${id}/`)
getById(resource, id) ==
    [Config("getById", "/" \o resource \o "/" \o ToString(id) \o "/") EXCEPT
        !.method = "GET"]

\* Modal.js 488-492: api.post(`/${resource}/`, data)
create(resource, data) ==
    [Config("create", "/" \o resource \o "/") EXCEPT
        !.method = "POST", !.body = data]

\* Variant: update sends a partial update.
updateAsPatch(resource, id, data) ==
    [Config("update", "/" \o resource \o "/" \o ToString(id) \o "/") EXCEPT
        !.method = "PATCH", !.body = data]

\* Modal.js 494-498: api.put(`/${resource}/${id}/`, data)
update(resource, id, data) ==
    [Config("update", "/" \o resource \o "/" \o ToString(id) \o "/") EXCEPT
        !.method = "PUT", !.body = data]

\* Modal.js 500-504: api.patch(`/${resource}/${id}/`, data)
partialUpdate(resource, id, data) ==
    [Config("partialUpdate", "/" \o resource \o "/" \o ToString(id) \o "/")
        EXCEPT !.method = "PATCH", !.body = data]

\* Modal.js 506-510: api.delete(`/${resource}/${id}/`)
remove(resource, id) ==
    [Config("remove", "/" \o resource \o "/" \o ToString(id) \o "/") EXCEPT
        !.method = "DELETE"]

Kinds == {"getAll", "getById", "create", "update", "partialUpdate", "remove"}

\* The arguments a kind of call takes.
TakesId(kind) == kind \in {"getById", "update", "partialUpdate", "remove"}
Arguments(kind) ==
    CASE kind = "getAll" -> QueryParams
      [] kind \in {"create", "update", "partialUpdate"} -> Payloads
      [] OTHER -> {None}

ResourceRequest(kind, resource, id, arg) ==
    CASE kind = "getAll"        -> getAll(resource, arg)
      [] kind = "getById"       -> getById(resource, id)
      [] kind = "create"        -> create(resource, arg)
      [] kind = "update"        -> update(resource, id, arg)
      [] kind = "partialUpdate" -> partialUpdate(resource, id, arg)
      [] kind = "remove"        -> remove(resource, id)

\* One operation of the Resource Client is called: its request goes out
\* through api.
resourceCall(r, kind, resource, id, arg) ==
    /\ r <= NApp
    /\ Free(r)
    /\ arg \in Arguments(kind)
    /\ TakesId(kind) \/ id = 1
    /\ req' = [req EXCEPT ![r] =
           api(ResourceRequest(kind, resource, id, arg), localStorage)]
    /\ UNCHANGED <<localStorage, href, ctx, view>>

\* const response = await api...; return response.data
resourceFulfilled(r, body) ==
    /\ req[r].pc = "sent"
    /\ req[r].op \in Kinds
    /\ req' = [req EXCEPT ![r] = Settle(@, Fulfilled(@.attempt, body))]
    /\ UNCHANGED <<localStorage, href, ctx, view>>

\* The stores a page that calls the Resource Client can find.
StoredSession ==
    setItem(SaveTokens(EmptyStorage, "A1", "R1"), "user", JSONstringify("U1"))

ResourceInit ==
    /\ localStorage \in {EmptyStorage, StoredSession}
    /\ req = [r \in Req |-> Idle]
    /\ href = "/"
    /\ user = IF localStorage.user = None THEN None ELSE "U1"
    /\ loading = FALSE
    /\ before = [r \in Req |-> NoSnapshot]
    /\ NoView

ResourceNext ==
    \/ \E r \in Req, kind \in Kinds, resource \in ResourceNames,
          id \in ResourceIds, arg \in QueryParams \cup Payloads :
          resourceCall(r, kind, resource, id, arg)
    \/ \E r \in Req, body \in ResponseBodies : resourceFulfilled(r, body)
    \/ \E r \in Req, s \in ErrorStatuses :
          responseRejected(r, s) /\ UNCHANGED <<ctx, view>>
    \/ \E r \in Req, a \in AccessTokens :
          refreshFulfilled(r, a) /\ UNCHANGED <<ctx, view>>
    \/ \E r \in Req, s \in RefreshErrorStatuses :
          refreshRejected(r, s) /\ UNCHANGED <<ctx, view>>

SpecResource == ResourceInit /\ [][ResourceNext]_vars

---------------------------------------------------------------------------
(* The application: AuthProvider (context/AuthContext.js) over services/api.js *)

\* Profiles the server can return to the application.
AppProfiles == {"U1", "U2"}

\* AuthContext.js 57: JSON.parse(storedUser)
JSONparse(text) == CHOOSE p \in AppProfiles : JSONstringify(p) = text

NoSnapshots == [r \in Req |-> NoSnapshot]

\* AuthContext.js 53-56: if (token && storedUser)
SessionStored(ls) == ls.access_token # None /\ ls.user # None

\* AuthContext.js 117: const isAuthenticated = !!user
isAuthenticated == user # None

\* Modal.js 411 has assigned window.location.href and the browser has not
\* yet replaced the page.
NavigationPending == href = "/login"

\* A full page load (the redirect of Modal.js 411 taking effect, or a reload
\* by the user): every script state is gone, localStorage stays, no
\* navigation is pending any more.
\* AuthContext.js 39-40: useState(null), useState(true).
pageLoad ==
    /\ req' = [r \in Req |-> Idle]
    /\ user' = None
    /\ loading' = TRUE
    /\ UNCHANGED view
    /\ before' = NoSnapshots
    /\ href' = "/"
    /\ UNCHANGED localStorage

\* AuthContext.js 48-78: the mount effect runs checkAuth up to its await.
checkAuth(r) ==
    /\ loading
    /\ \A q \in Req : req[q].pc = "idle"
    /\ Free(r)
    /\ IF SessionStored(localStorage)
       THEN /\ user' = JSONparse(localStorage.user)
            /\ req' = [req EXCEPT ![r] =
                   api(Config("checkAuth", "/auth/user/"), localStorage)]
            /\ UNCHANGED loading
       ELSE /\ loading' = FALSE
            /\ UNCHANGED <<user, req>>
    /\ UNCHANGED view
    /\ UNCHANGED <<localStorage, href, before>>

\* AuthContext.js 61-63 and 72-74: getCurrentUser resolved.
checkAuthFulfilled(r, profile) ==
    /\ req[r].pc = "sent"
    /\ req[r].op = "checkAuth"
    /\ user' = profile
    /\ localStorage' = setItem(localStorage, "user", JSONstringify(profile))
    /\ loading' = FALSE
    /\ req' = [req EXCEPT ![r] = Settle(@, Fulfilled(@.attempt, profile))]
    /\ UNCHANGED view
    /\ UNCHANGED <<href, before>>

\* Variant: the catch of checkAuth leaves the store as it is.
ContextLogoutSkipped(ls) == ls

\* AuthContext.js 101-104: logout of the context.
ContextLogout(ls) == ClearStorage(ls)

\* Modal.js 382-417 then AuthContext.js 64-74: getCurrentUser fails; unless
\* the interceptor starts a refresh, the rejection reaches the catch of
\* checkAuth, which logs out.
checkAuthRejected(r, status) ==
    /\ req[r].pc = "sent"
    /\ req[r].op = "checkAuth"
    /\ IF ShouldRecover(status, req[r].retry) /\ HasRefreshToken(localStorage)
       THEN responseRejected(r, status) /\ UNCHANGED <<ctx, view>>
       ELSE /\ req' = [req EXCEPT ![r] =
                   Settle([@ EXCEPT !.retry = @ \/ ShouldRecover(status, @)],
                          Rejected("request", status, @.attempt))]
            /\ localStorage' = ContextLogout(localStorage)
            /\ user' = None
            /\ loading' = FALSE
            /\ UNCHANGED view
            /\ UNCHANGED <<href, before>>

\* Modal.js 406-413 then AuthContext.js 64-74: the refresh call made for
\* getCurrentUser fails.
checkAuthRefreshRejected(r, status) ==
    /\ req[r].op = "checkAuth"
    /\ refreshRejected(r, status)
    /\ user' = None
    /\ loading' = FALSE
    /\ UNCHANGED view
    /\ UNCHANGED before

\* AuthContext.js 85-87: login of the context calls login of services/api.js.
contextLogin(r) ==
    /\ r <= NApp
    /\ ~loading
    /\ login(r)
    /\ UNCHANGED <<user, loading>>

authLogin(r) ==
    /\ contextLogin(r)
    /\ UNCHANGED view
    /\ UNCHANGED before

\* The same call, with the store as the caller found it kept aside.
authLoginRecorded(r) ==
    /\ contextLogin(r)
    /\ UNCHANGED view
    /\ before' = [before EXCEPT ![r] = localStorage]

authLoginFulfilled(r, access, refresh) ==
    /\ req[r].op = "login"
    /\ loginFulfilled(r, access, refresh)
    /\ UNCHANGED <<ctx, view>>

\* AuthContext.js 87-89: setUser(userData).
authLoginUserFulfilled(r, profile) ==
    /\ loginUserFulfilled(r, profile)
    /\ user' = profile
    /\ UNCHANGED view
    /\ before' = [before EXCEPT ![r] = NoSnapshot]
    /\ UNCHANGED loading

\* A request of a page or of login fails: AuthContext.js 90-93 rethrows, the
\* pages catch and show a toast.
appResponseRejected(r, status) ==
    /\ req[r].op # "checkAuth"
    /\ responseRejected(r, status)
    /\ UNCHANGED view
    /\ before' = IF req'[r].pc = "done"
                 THEN [before EXCEPT ![r] = NoSnapshot]
                 ELSE before
    /\ UNCHANGED <<user, loading>>

appRefreshFulfilled(r, access) ==
    /\ refreshFulfilled(r, access)
    /\ UNCHANGED <<ctx, view>>

appRefreshRejected(r, status) ==
    /\ req[r].op # "checkAuth"
    /\ refreshRejected(r, status)
    /\ UNCHANGED view
    /\ before' = [before EXCEPT ![r] = NoSnapshot]
    /\ UNCHANGED <<user, loading>>

\* AuthContext.js 101-104: apiLogout(); setUser(null).
authLogout ==
    /\ ~loading
    /\ localStorage' = ContextLogout(localStorage)
    /\ user' = None
    /\ UNCHANGED view
    /\ UNCHANGED <<req, href, loading, before>>

\* AuthContext.js 111-114: updateUser, called by a page behind ProtectedRoute.
updateUser(userData) ==
    /\ ~loading
    /\ isAuthenticated
    /\ user' = userData
    /\ localStorage' = setItem(localStorage, "user", JSONstringify(userData))
    /\ UNCHANGED view
    /\ UNCHANGED <<req, href, loading, before>>

\* What a route element renders.
Spinner == "spinner"
Children == "children"
NavigateLogin == "Navigate to /login"

\* Variant: ProtectedRoute without the isAuthenticated test.
ProtectedRouteOpen(isLoading, authenticated) ==
    IF isLoading THEN Spinner ELSE Children

\* part_002 37-56: ProtectedRoute
ProtectedRoute(isLoading, authenticated) ==
    IF isLoading THEN Spinner
    ELSE IF ~authenticated THEN NavigateLogin
    ELSE Children

\* AuthContext.js 130-145: AuthProvider renders a spinner in place of its
\* children, the routes, while loading; then a protected route renders.
RouteContent ==
    IF loading THEN Spinner ELSE ProtectedRoute(loading, isAuthenticated)

\* A page behind ProtectedRoute is rendered and calls the Resource Client.
pageCall(r) ==
    /\ r <= NApp
    /\ RouteContent = Children
    /\ crud(r)
    /\ UNCHANGED <<ctx, view>>

pageCallFulfilled(r) ==
    /\ crudFulfilled(r)
    /\ UNCHANGED <<ctx, view>>

\* A fresh browser opens the application.
AppInit ==
    /\ localStorage = EmptyStorage
    /\ req = [r \in Req |-> Idle]
    /\ href = "/"
    /\ user = None
    /\ loading = TRUE
    /\ before = NoSnapshots
    /\ NoView

AppNext ==
    \/ pageLoad
    \/ \E r \in Req : checkAuth(r)
    \/ \E r \in Req, p \in AppProfiles : checkAuthFulfilled(r, p)
    \/ \E r \in Req, s \in ErrorStatuses : checkAuthRejected(r, s)
    \/ \E r \in Req, s \in RefreshErrorStatuses : checkAuthRefreshRejected(r, s)
    \/ \E r \in Req : authLogin(r)
    \/ \E r \in Req, a \in AccessTokens, f \in RefreshTokens :
          authLoginFulfilled(r, a, f)
    \/ \E r \in Req, p \in AppProfiles : authLoginUserFulfilled(r, p)
    \/ \E r \in Req, s \in ErrorStatuses : appResponseRejected(r, s)
    \/ \E r \in Req, a \in AccessTokens : appRefreshFulfilled(r, a)
    \/ \E r \in Req, s \in RefreshErrorStatuses : appRefreshRejected(r, s)
    \/ authLogout
    \/ \E p \in AppProfiles : updateUser(p)
    \/ \E r \in Req : pageCall(r)
    \/ \E r \in Req : pageCallFulfilled(r)

SpecApp == AppInit /\ [][AppNext]_vars

\* The login page alone, shown once the auth check found no session.
LoginInit ==
    /\ localStorage = EmptyStorage
    /\ req = [r \in Req |-> Idle]
    /\ href = "/"
    /\ user = None
    /\ loading = FALSE
    /\ before = NoSnapshots
    /\ NoView

LoginNext ==
    \/ \E r \in Req : authLoginRecorded(r)
    \/ \E r \in Req, a \in AccessTokens, f \in RefreshTokens :
          authLoginFulfilled(r, a, f)
    \/ \E r \in Req, p \in AppProfiles : authLoginUserFulfilled(r, p)
    \/ \E r \in Req, s \in ErrorStatuses : appResponseRejected(r, s)
    \/ \E r \in Req, a \in AccessTokens : appRefreshFulfilled(r, a)
    \/ \E r \in Req, s \in RefreshErrorStatuses : appRefreshRejected(r, s)
    \/ authLogout

SpecLogin == LoginInit /\ [][LoginNext]_vars

\* The application starts: a page load finds whatever an earlier page left
\* in localStorage, and the mount effect of AuthProvider runs.  A refresh
\* token is only ever stored together with an access token (Modal.js
\* 431-432) and removed together with it.
RestoreStores ==
    {ls \in [access_token : AccessTokens \cup {None},
             refresh_token : RefreshTokens \cup {None},
             user : {JSONstringify(p) : p \in AppProfiles} \cup {None}] :
        ls.refresh_token # None => ls.access_token # None}

RestoreInit ==
    /\ localStorage \in RestoreStores
    /\ req = [r \in Req |-> Idle]
    /\ href = "/"
    /\ user = None
    /\ loading = TRUE
    /\ before = NoSnapshots
    /\ NoView

\* Modal.js 411: the navigation assigned by the refresh catch takes effect.
redirect ==
    /\ NavigationPending
    /\ pageLoad

\* What happens without the user: the mount effect and the answers of the
\* transport.
Scheduled ==
    \/ \E r \in Req : checkAuth(r)
    \/ \E r \in Req, p \in AppProfiles : checkAuthFulfilled(r, p)
    \/ \E r \in Req, s \in ErrorStatuses : checkAuthRejected(r, s)
    \/ \E r \in Req, s \in RefreshErrorStatuses : checkAuthRefreshRejected(r, s)
    \/ \E r \in Req, a \in AccessTokens, f \in RefreshTokens :
          authLoginFulfilled(r, a, f)
    \/ \E r \in Req, p \in AppProfiles : authLoginUserFulfilled(r, p)
    \/ \E r \in Req, s \in ErrorStatuses : appResponseRejected(r, s)
    \/ \E r \in Req, a \in AccessTokens : appRefreshFulfilled(r, a)
    \/ \E r \in Req, s \in RefreshErrorStatuses : appRefreshRejected(r, s)
    \/ \E r \in Req : pageCallFulfilled(r)
    \/ redirect

\* What the user does on the page that has started.
UserActs ==
    \/ \E r \in Req : authLogin(r)
    \/ authLogout
    \/ \E p \in AppProfiles : updateUser(p)
    \/ \E r \in Req : pageCall(r)

RestoreNext == Scheduled \/ UserActs

\* The effect runs once the component has mounted and the transport answers
\* every request it has sent, with a response or with an error; the user
\* may stop acting at any time.
SpecRestore == RestoreInit /\ [][RestoreNext]_vars /\ WF_vars(Scheduled)

---------------------------------------------------------------------------
(* Steps, as seen in a pair of states *)

\* A request of slot r goes on the wire in this step: a first attempt, the
\* current-user request that follows a login, or a retry after a refresh.
Wired(r) ==
    /\ req'[r].pc = "sent"
    /\ req[r].pc # "sent" \/ req'[r].url # req[r].url

\* The response interceptor starts recovery for slot r: a refresh call is issued.
RefreshIssued(r) == req[r].pc = "sent" /\ req'[r].pc = "refreshing"

\* The refresh call of slot r succeeds and the request is retried.
Absorbed(r) == req[r].pc = "refreshing" /\ req'[r].pc = "sent"

\* The refresh call of slot r fails.
RefreshFailed(r) == req[r].pc = "refreshing" /\ req'[r].pc = "done"

\* The request of slot r (not its refresh call) is rejected to its caller.
RequestRejected(r) ==
    /\ req[r].pc = "sent"
    /\ req'[r].pc = "done"
    /\ req'[r].result.settled = "rejected"

---------------------------------------------------------------------------
(* Claims *)

\* C1: every request sent through api while an access token is stored
\* carries exactly the token stored at the moment it is sent; with no token
\* stored, a first attempt is sent without an Authorization header.
C1_AuthorizationIsStoredToken ==
    [][\A r \in Req :
          Wired(r) =>
              IF localStorage'.access_token # None
              THEN req'[r].Authorization = localStorage'.access_token
              ELSE req'[r].attempt = 1 => req'[r].Authorization = None]_vars

\* One first attempt is on the wire with no header (sent on an empty store)
\* and another is on the wire carrying the token now stored.
C1_Witness ==
    \E p, q \in Req :
        /\ req[p].pc = "sent" /\ req[p].attempt = 1 /\ req[p].Authorization = None
        /\ req[q].pc = "sent" /\ req[q].attempt = 1
        /\ localStorage.access_token # None
        /\ req[q].Authorization = localStorage.access_token

\* C2: a first attempt answered 401 while a refresh token is stored issues
\* one refresh call carrying that refresh token; when the refresh call
\* succeeds, the token it returned becomes the stored access token and the
\* same request is sent once more, carrying that token; a retried request
\* never starts another refresh, so there is exactly one refresh call and
\* exactly one retry.
C2_OneRefreshOneRetry ==
    [][\A r \in Req :
          /\ RefreshIssued(r) =>
                /\ req[r].attempt = 1 /\ req[r].refreshes = 0
                /\ req'[r].refreshes = 1 /\ req'[r].attempt = 1
                /\ localStorage.refresh_token # None
                /\ req'[r].refreshBody = localStorage.refresh_token
          /\ Absorbed(r) =>
                /\ req[r].refreshes = 1 /\ req'[r].refreshes = 1
                /\ req[r].attempt = 1 /\ req'[r].attempt = 2
                /\ req'[r].url = req[r].url
                /\ req'[r].access \in AccessTokens
                /\ localStorage'.access_token = req'[r].access
                /\ req'[r].Authorization = req'[r].access
          /\ (req[r].pc = "sent" /\ req[r].attempt = 2) =>
                req'[r].pc # "refreshing"]_vars

\* A request has been retried after a refresh and carries the refreshed
\* token, which is the stored one.
C2_Witness ==
    \E r \in Req :
        /\ req[r].pc = "sent" /\ req[r].attempt = 2 /\ req[r].refreshes = 1
        /\ req[r].access # None
        /\ req[r].Authorization = req[r].access
        /\ localStorage.access_token = req[r].access
        /\ localStorage.refresh_token # None

\* C3: no request ever has more than one refresh call or more than one
\* retry; a request already marked as retried that fails again (also with
\* 401) goes to its caller with that error, without a refresh call.
C3_NoRecoveryLoop ==
    [][\A r \in Req :
          /\ req'[r].refreshes <= 1
          /\ req'[r].attempt <= 2
          /\ (req[r].pc = "sent" /\ req[r].retry /\ req'[r] # req[r]) =>
                /\ req'[r].pc # "refreshing"
                /\ req'[r].pc = "done" \/ Wired(r)
                /\ req'[r].result.settled = "rejected" =>
                      /\ req'[r].result.from = "request"
                      /\ req'[r].result.attempt = 2]_vars

\* The retry of a request was itself answered 401 and the caller got that error.
C3_Witness ==
    \E r \in Req :
        /\ req[r].pc = "done"
        /\ req[r].result = Rejected("request", AuthFailure, 2)

\* C4: when the refresh call fails, the three store entries are all absent
\* and the caller's request is rejected with the refresh error.
C4_RefreshFailureClearsStore ==
    [][\A r \in Req :
          /\ (req[r].pc = "refreshing" /\ req'[r] # req[r]) =>
                Absorbed(r) \/ RefreshFailed(r)
          /\ RefreshFailed(r) =>
                /\ localStorage' = EmptyStorage
                /\ req'[r].result.settled = "rejected"
                /\ req'[r].result.from = "refresh"
                /\ req'[r].result.status \in RefreshErrorStatuses]_vars

\* A refresh call has been rejected by the server: the caller holds the
\* refresh error and the store is empty.
C4_Witness ==
    \E r \in Req :
        /\ req[r].pc = "done"
        /\ req[r].result = Rejected("refresh", AuthFailure, 1)
        /\ localStorage = EmptyStorage

C6_TokensBothOrNeither ==
    (localStorage.access_token = None) <=> (localStorage.refresh_token = None)

\* C7: when two requests are answered 401 before either refresh completes,
\* one refresh call is in flight for both, never two.
C7_SingleSharedRefresh ==
    Cardinality({r \in Req : req[r].pc = "refreshing"}) <= 1

C9_RefreshWritesAccessOnly ==
    [][\A r \in Req :
          Absorbed(r) =>
              /\ localStorage'.access_token = req'[r].access
              /\ localStorage'.refresh_token = localStorage.refresh_token
              /\ localStorage'.user = localStorage.user]_vars

\* A refresh has succeeded on a full session: new access token stored,
\* refresh token and profile still there.
C9_Witness ==
    \E r \in Req :
        /\ req[r].pc = "sent" /\ req[r].attempt = 2
        /\ localStorage.access_token = req[r].access
        /\ localStorage.refresh_token \in RefreshTokens
        /\ localStorage.user = JSONstringify("U1")

\* C10 as stated: a 401 answer to a request not yet retried always starts
\* recovery, which ends absorbed (refresh succeeded, request retried) or in
\* teardown (store cleared, refresh error to the caller); the caller never
\* receives the 401 of a first attempt.
C10_Original ==
    [][\A r \in Req :
          /\ (RequestRejected(r) /\ ~req[r].retry) =>
                req'[r].result.status # AuthFailure
          /\ (req[r].pc = "refreshing" /\ req'[r] # req[r]) =>
                \/ Absorbed(r) /\ localStorage'.access_token = req'[r].access
                \/ RefreshFailed(r) /\ localStorage' = EmptyStorage
                                    /\ req'[r].result.from = "refresh"]_vars

\* C10 amended: a 401 answer to a request not yet retried starts recovery
\* if and only if a refresh token is stored, and recovery ends absorbed or
\* in teardown; with no refresh token stored the 401 goes to the caller as
\* it is, with no refresh call, no retry, no store change and no redirect.
C10_Amended ==
    [][\A r \in Req :
          /\ RefreshIssued(r) =>
                ~req[r].retry /\ localStorage.refresh_token # None
          /\ (RequestRejected(r) /\ ~req[r].retry
                /\ req'[r].result.status = AuthFailure) =>
                /\ localStorage.refresh_token = None
                /\ localStorage' = localStorage
                /\ href' = href
                /\ req'[r].result = Rejected("request", AuthFailure, 1)
          /\ (req[r].pc = "refreshing" /\ req'[r] # req[r]) =>
                \/ Absorbed(r) /\ localStorage'.access_token = req'[r].access
                \/ RefreshFailed(r) /\ localStorage' = EmptyStorage
                                    /\ req'[r].result.from = "refresh"]_vars

\* One request was absorbed (retried after a refresh) while another, sent
\* and answered 401 with no refresh token stored, was rejected as it was.
C10_Witness ==
    \E p, q \in Req :
        /\ req[p].pc = "sent" /\ req[p].attempt = 2 /\ req[p].refreshes = 1
        /\ req[q].pc = "done"
        /\ req[q].result = Rejected("request", AuthFailure, 1)

---------------------------------------------------------------------------
(* Claims about the application *)

\* The step of a failed refresh clears the store and assigns the login page.
TeardownRedirects ==
    \A r \in Req :
        RefreshFailed(r) => localStorage' = EmptyStorage /\ href' = "/login"

\* The auth check of a page that finds no stored session ends
\* unauthenticated and sends nothing.
EmptyRestoreIsUnauthenticated ==
    \A r \in Req :
        checkAuth(r) /\ ~SessionStored(localStorage)
            => user' = None /\ ~loading' /\ req' = req

StoreWritten ==
    \/ \E r \in Req, p \in AppProfiles : authLoginUserFulfilled(r, p)
    \/ \E r \in Req, a \in AccessTokens, f \in RefreshTokens :
          authLoginFulfilled(r, a, f)
    \/ \E r \in Req, a \in AccessTokens : appRefreshFulfilled(r, a)
    \/ \E p \in AppProfiles : updateUser(p)

EntryRemoved ==
    \E k \in DOMAIN localStorage :
        localStorage[k] # None /\ localStorage'[k] = None

\* C12: entries of the store are removed only by an explicit logout or by a
\* failed refresh; a transport failure or a non-auth error response, that of
\* the current-user request of the session restore included, removes nothing.
C12_ClearedOnlyByLogoutOrFailedRefresh ==
    [][EntryRemoved => authLogout \/ \E r \in Req : RefreshFailed(r)]_vars

\* The login call of slot r settles: its promise resolves or rejects.
LoginSettled(r) ==
    /\ req[r].op = "login"
    /\ req[r].pc # "done"
    /\ req'[r].pc = "done"

\* C13: login is atomic for its caller: when it has resolved the store holds
\* tokens and the profile login returned, and when it has rejected the store
\* holds exactly the three values it held at the call.
C13_LoginIsAtomic ==
    [][\A r \in Req :
          LoginSettled(r) =>
              IF req'[r].result.settled = "resolved"
              THEN /\ localStorage'.access_token # None
                   /\ localStorage'.refresh_token # None
                   /\ localStorage'.user = JSONstringify(req'[r].result.data)
              ELSE localStorage' = before[r]]_vars

C15_LogoutClears ==
    [][/\ authLogout =>
             /\ localStorage' = EmptyStorage
             /\ user' = None
             /\ ~isAuthenticated'
             /\ ContextLogout(localStorage') = localStorage'
       /\ authLogout /\ localStorage = EmptyStorage /\ user = None =>
             UNCHANGED vars
       /\ \A r \in Req :
             checkAuth(r) /\ localStorage = ContextLogout(localStorage) =>
                 /\ ~isAuthenticated'
                 /\ ~loading'
                 /\ req' = req
                 /\ localStorage' = EmptyStorage]_vars

\* A login has resolved and a logout has then cleared store and user.
C15_Witness ==
    /\ ~loading
    /\ ~isAuthenticated
    /\ localStorage = EmptyStorage
    /\ ~NavigationPending
    /\ \E r \in Req :
          /\ req[r].pc = "done"
          /\ req[r].result.settled = "resolved"
          /\ req[r].result.data \in AppProfiles

\* C16: a failed refresh leaves no mode behind. On a page where a refresh
\* has failed and cleared the store, a login whose two calls succeed stores
\* a full session again, and a 401 answering a first attempt while a refresh
\* token is stored again starts one refresh, whose success stores the new
\* access token and retries the request once.
C16_FailedIsNotSticky ==
    [][NavigationPending =>
          \A r \in Req :
              /\ \A a \in AccessTokens, f \in RefreshTokens :
                    loginFulfilled(r, a, f) =>
                        /\ localStorage'.access_token = a
                        /\ localStorage'.refresh_token = f
              /\ \A p \in AppProfiles :
                    loginUserFulfilled(r, p) =>
                        /\ localStorage'.user = JSONstringify(p)
                        /\ localStorage'.access_token # None
                           => SessionStored(localStorage')
              /\ ( /\ req[r].pc = "sent"
                   /\ req[r].attempt = 1
                   /\ localStorage.refresh_token # None
                   /\ req'[r].pc = "done" )
                  => req'[r].result.status # AuthFailure
              /\ RefreshIssued(r) =>
                    /\ req[r].attempt = 1
                    /\ req'[r].refreshes = 1
                    /\ req'[r].refreshBody = localStorage.refresh_token
              /\ Absorbed(r) =>
                    /\ req'[r].refreshes = 1
                    /\ req'[r].attempt = 2
                    /\ localStorage'.access_token = req'[r].access
                    /\ req'[r].Authorization = req'[r].access]_vars

\* After a failed refresh cleared the store, a login has stored a full
\* session and a request of a page, answered 401, has been refreshed and
\* retried once.
C16_Witness ==
    /\ NavigationPending
    /\ isAuthenticated
    /\ SessionStored(localStorage)
    /\ localStorage.refresh_token # None
    /\ \A q \in Req : q > 1 => req[q].pc = "idle"
    /\ \E r \in Req :
          /\ req[r].op = "crud" /\ req[r].pc = "sent"
          /\ req[r].attempt = 2 /\ req[r].refreshes = 1
          /\ req[r].Authorization = localStorage.access_token

\* Position of a request in its sequence: first attempt, refresh call,
\* retry.
Stage(q) ==
    CASE q.pc = "sent" /\ q.attempt = 1 -> 1
      [] q.pc = "refreshing"            -> 2
      [] q.pc = "sent" /\ q.attempt = 2 -> 3
      [] OTHER                          -> 0

\* C17: for one caller the sequence first attempt, 401, refresh call, refresh
\* response, store update, retry is strictly ordered: a request in flight
\* only moves one position forward; the retry is sent by the step that
\* receives the refresh response and writes the new access token, and it
\* carries that token; once recovery has started the caller's promise
\* settles only when the refresh call fails or when the retry is answered.
C17_RecoveryIsOrdered ==
    [][\A r \in Req :
          /\ ( /\ Stage(req[r]) > 0 /\ Stage(req'[r]) > 0
               /\ req'[r] # req[r] /\ req'[r].url = req[r].url )
                => Stage(req'[r]) = Stage(req[r]) + 1
          /\ (Stage(req[r]) # 3 /\ Stage(req'[r]) = 3) =>
                /\ Stage(req[r]) = 2
                /\ req[r].error = AuthFailure
                /\ req'[r].access \in AccessTokens
                /\ localStorage'.access_token = req'[r].access
                /\ req'[r].Authorization = localStorage'.access_token
          /\ (req[r].retry /\ Stage(req[r]) > 0 /\ req'[r].pc = "done") =>
                \/ /\ Stage(req[r]) = 2
                   /\ req'[r].result.settled = "rejected"
                   /\ req'[r].result.from = "refresh"
                \/ /\ Stage(req[r]) = 3
                   /\ req'[r].result.from = "request"
                   /\ req'[r].result.attempt = 2]_vars

\* A caller's promise has resolved with the answer to the retry.
C17_Witness ==
    \E r \in Req :
        /\ req[r].pc = "done"
        /\ req[r].result.settled = "resolved"
        /\ req[r].result.attempt = 2

\* C18: a protected route renders its children only when the auth check has
\* finished and user is non-null; when the check has finished and user is
\* null it redirects to '/login'; while the check runs nothing but the
\* spinner is rendered.
C18_ProtectedRouteGuards ==
    /\ RouteContent = Children <=> ~loading /\ user # None
    /\ ~loading /\ user = None => RouteContent = NavigateLogin
    /\ loading => RouteContent = Spinner
    /\ ~isAuthenticated => RouteContent # Children

\* The auth check has finished without a user and the route redirects.
C18_Witness ==
    /\ ~loading
    /\ user = None
    /\ RouteContent = NavigateLogin
    /\ \E r \in Req : req[r].pc = "done"

\* C19: each Resource Client operation sends exactly one request through
\* api, with the verb and path of its kind; the call and the handling of
\* its answer leave the store alone; the promise resolves to the response
\* body or rejects with the error of the transport.
C19_ResourceClient ==
    [][/\ \A r \in {q \in Req : Wired(q)}, kind \in Kinds,
            resource \in ResourceNames, id \in ResourceIds,
            arg \in QueryParams \cup Payloads :
             (req'[r].op = kind /\ resourceCall(r, kind, resource, id, arg)) =>
                 LET item == "/" \o resource \o "/" \o ToString(id) \o "/"
                     list == "/" \o resource \o "/"
                     c == req'[r]
                 IN  /\ \A q \in Req \ {r} : req'[q] = req[q]
                     /\ c.pc = "sent" /\ c.attempt = 1 /\ c.refreshes = 0
                     /\ c.Authorization = localStorage.access_token
                     /\ localStorage' = localStorage
                     /\ kind = "getAll" =>
                           c.method = "GET" /\ c.url = list /\ c.body = arg
                     /\ kind = "getById" =>
                           c.method = "GET" /\ c.url = item /\ c.body = None
                     /\ kind = "create" =>
                           c.method = "POST" /\ c.url = list /\ c.body = arg
                     /\ kind = "update" =>
                           c.method = "PUT" /\ c.url = item /\ c.body = arg
                     /\ kind = "partialUpdate" =>
                           c.method = "PATCH" /\ c.url = item /\ c.body = arg
                     /\ kind = "remove" =>
                           c.method = "DELETE" /\ c.url = item
                              /\ c.body = None
       /\ \A r \in {q \in Req : req'[q].pc = "done"},
            body \in ResponseBodies :
             resourceFulfilled(r, body) =>
                 /\ req'[r].result.settled = "resolved"
                 /\ req'[r].result.data = body
                 /\ localStorage' = localStorage
       /\ \A r \in Req :
             RequestRejected(r) =>
                 /\ req'[r].result.from = "request"
                 /\ req'[r].result.status \in ErrorStatuses
                 /\ req'[r].result.data = ResponseData(req'[r].result.status)
                 /\ localStorage' = localStorage
       /\ \A r \in Req :
             (req[r].pc = "sent" /\ req'[r].pc = "sent") =>
                 /\ req'[r].method = req[r].method
                 /\ req'[r].url = req[r].url
                 /\ req'[r].body = req[r].body]_vars

\* An update of one tenant is in flight with the stored token.
C19_Witness ==
    \E r \in Req :
        /\ req[r].pc = "sent"
        /\ req[r].method = "PUT"
        /\ req[r].url = "/tenants/2/"
        /\ req[r].body = "data"
        /\ req[r].Authorization = StoredSession.access_token

\* Steps that touch the store, by what they do to it.
AccessWritten ==
    /\ localStorage'.access_token # localStorage.access_token
    /\ localStorage'.access_token # None
RefreshWritten ==
    /\ localStorage'.refresh_token # localStorage.refresh_token
    /\ localStorage'.refresh_token # None
UserWritten ==
    /\ localStorage'.user # localStorage.user
    /\ localStorage'.user # None
TokensModified ==
    \/ localStorage'.access_token # localStorage.access_token
    \/ localStorage'.refresh_token # localStorage.refresh_token

\* The steps that are the writers.
LoginResponse ==
    \E r \in Req, a \in AccessTokens, f \in RefreshTokens :
        authLoginFulfilled(r, a, f)
LoginUserResponse ==
    \E r \in Req, p \in AppProfiles : authLoginUserFulfilled(r, p)
RefreshSuccess == \E r \in Req, a \in AccessTokens : appRefreshFulfilled(r, a)
CheckAuthSuccess ==
    \E r \in Req, p \in AppProfiles : checkAuthFulfilled(r, p)
CheckAuthCatch ==
    \E r \in Req :
        \/ \E s \in ErrorStatuses : checkAuthRejected(r, s)
        \/ \E s \in RefreshErrorStatuses : checkAuthRefreshRejected(r, s)

\* C20 as stated: the access token is written only by a successful refresh
\* and by login, and nothing but these two and an explicit logout modifies
\* the stored tokens.
C20_Original ==
    [][/\ AccessWritten => RefreshSuccess \/ LoginResponse
       /\ TokensModified => RefreshSuccess \/ LoginResponse \/ authLogout]_vars

\* C20, amended: the access token is written only by a successful refresh
\* and by login, the refresh token only by login, the profile only by login,
\* by a successful session restore and by updateUser; entries are removed
\* by logout, by the catch of a failed refresh and by the catch of the
\* session restore, which calls logout; no other step modifies the store.
C20_Amended ==
    [][/\ AccessWritten => RefreshSuccess \/ LoginResponse
       /\ RefreshWritten => LoginResponse
       /\ UserWritten =>
             LoginUserResponse \/ CheckAuthSuccess
                \/ \E p \in AppProfiles : updateUser(p)
       /\ EntryRemoved =>
             authLogout \/ CheckAuthCatch \/ \E r \in Req : RefreshFailed(r)
       /\ localStorage' # localStorage =>
             AccessWritten \/ RefreshWritten \/ UserWritten \/ EntryRemoved]_vars

\* A call that returns the profile was answered 401, the refresh wrote a new
\* access token, and the answer to the retry was stored as the profile.
C20_Witness ==
    /\ ~loading
    /\ isAuthenticated
    /\ localStorage.refresh_token # None
    /\ localStorage.user = JSONstringify(user)
    /\ \E r \in Req :
          /\ req[r].pc = "done"
          /\ req[r].result.settled = "resolved"
          /\ req[r].result.attempt = 2
          /\ req[r].result.data = user

\* The current-user call of the session restore in slot r is rejected to
\* checkAuth.
RestoreFailed(r) ==
    /\ req[r].op = "checkAuth"
    /\ req[r].pc # "done"
    /\ req'[r].pc = "done"
    /\ req'[r].result.settled = "rejected"

\* C21: on application start user becomes non-null only if access token and
\* cached profile are both stored; when the current-user call succeeds, user
\* and cached profile become the server's profile; when it fails, the store
\* is cleared and user is null; on every path loading becomes false.
C21_SessionRestore ==
    /\ [][/\ \A r \in Req :
                checkAuth(r) =>
                    /\ isAuthenticated' =>
                          /\ localStorage.access_token # None
                          /\ localStorage.user # None
                          /\ JSONstringify(user') = localStorage.user
                    /\ ~isAuthenticated' => ~loading' /\ req' = req
          /\ \A r \in Req, p \in AppProfiles :
                checkAuthFulfilled(r, p) =>
                    /\ user' = p
                    /\ localStorage'.user = JSONstringify(p)
                    /\ ~loading'
          /\ \A r \in Req :
                RestoreFailed(r) =>
                    /\ localStorage' = EmptyStorage
                    /\ user' = None
                    /\ ~loading']_vars
    /\ loading ~> ~loading

\* A session restore is under way: the stored profile is the user, the
\* current-user call was answered 401, refreshed and sent again, and the
\* loading screen is still shown.
C21_Witness ==
    /\ loading
    /\ isAuthenticated
    /\ \E r \in Req :
          /\ req[r].op = "checkAuth"
          /\ req[r].pc = "sent"
          /\ req[r].attempt = 2

\* C22: the refresh call is a POST carrying the stored refresh token, made
\* outside the intercepted client: whatever its failure, a 401 included, it
\* starts no further refresh call and is not retried, and leads straight to
\* the teardown of the failed refresh.
C22_RefreshNotIntercepted ==
    [][\A r \in Req :
          /\ RefreshIssued(r) =>
                /\ req'[r].refreshBody = localStorage.refresh_token
                /\ req'[r].refreshBody \in RefreshTokens
                /\ req'[r].attempt = req[r].attempt
          /\ (req[r].pc = "refreshing" /\ req'[r] # req[r]
                /\ req'[r].pc # "idle") =>
                \/ /\ Absorbed(r)
                   /\ req'[r].refreshes = req[r].refreshes
                \/ /\ RefreshFailed(r)
                   /\ req'[r].result.from = "refresh"
                   /\ req'[r].result.status \in RefreshErrorStatuses
                   /\ localStorage' = EmptyStorage
                   /\ href' = "/login"
          /\ req'[r].refreshes <= 1]_vars

\* A refresh call was itself answered 401: the store is cleared, the login
\* page is assigned and the caller holds the error of the refresh call.
C22_Witness ==
    /\ NavigationPending
    /\ localStorage = EmptyStorage
    /\ \E r \in Req :
          /\ req[r].pc = "done"
          /\ req[r].retry
          /\ req[r].result.from = "refresh"
          /\ req[r].result.status = AuthFailure

\* C23: a refresh call is issued only when a refresh token is stored; a 401
\* answering a request not yet retried, with no refresh token stored, makes
\* no refresh call and no retry, marks the request as retried, rejects the
\* original 401 to the caller and leaves store and location as they were.
C23_NoRefreshTokenNoRefresh ==
    [][\A r \in Req :
          /\ RefreshIssued(r) => localStorage.refresh_token # None
          /\ Absorbed(r) => req[r].refreshBody # None
          /\ ( /\ req[r].pc = "sent" /\ ~req[r].retry
               /\ localStorage.refresh_token = None
               /\ req'[r].pc = "done"
               /\ req'[r].result.status = AuthFailure ) =>
                /\ req'[r].retry
                /\ req'[r].result = Rejected("request", AuthFailure, 1)
                /\ req'[r].result.data = ResponseData(AuthFailure)
                /\ localStorage' = localStorage
                /\ href' = href
          /\ ( /\ req[r].pc = "sent" /\ ~req[r].retry
               /\ localStorage.refresh_token = None
               /\ req'[r] # req[r] ) => req'[r].pc = "done"]_vars

\* With no refresh token stored a request was answered 401 and rejected as
\* it was, marked as retried, with no redirect.
C23_Witness ==
    /\ localStorage.refresh_token = None
    /\ ~NavigationPending
    /\ \E r \in Req :
          /\ req[r].pc = "done"
          /\ req[r].retry
          /\ req[r].result = Rejected("request", AuthFailure, 1)

\* The user is logged out: no user in the context, nothing in the store.
LoggedOut == ~loading /\ user = None /\ localStorage = EmptyStorage

\* C24: once logout has cleared the store, no entry reappears in it until a
\* login succeeds, also when a request or a refresh call issued before the
\* logout is answered after it.
C24_ClearedUntilLogin ==
    [][(LoggedOut /\ localStorage' # EmptyStorage)
          => LoginResponse \/ LoginUserResponse]_vars

\* The request in slot r is the login call (POST /auth/login/).
IsLoginCall(r) == req[r].op = "login" /\ req[r].url = "/auth/login/"

\* C25: the interceptor treats the login call as any request. Answered 401
\* while a refresh token is stored it starts one refresh call, after which
\* the login call is sent once more with the refreshed token or, the refresh
\* rejected, the store is cleared; answered 401 on an empty store it starts
\* no refresh, leaves the store empty and is rejected to the caller.
C25_LoginIsRecoveredToo ==
    [][\A r \in {q \in Req : IsLoginCall(q)} :
          /\ RefreshIssued(r) =>
                /\ localStorage.refresh_token # None
                /\ req'[r].error = AuthFailure
                /\ req'[r].refreshes = 1
          /\ ( /\ req[r].pc = "sent" /\ req[r].attempt = 1
               /\ localStorage.refresh_token # None
               /\ req'[r].pc = "done" ) =>
                req'[r].result.status # AuthFailure
          /\ Absorbed(r) =>
                /\ req'[r].url = "/auth/login/"
                /\ req'[r].attempt = 2
                /\ req'[r].Authorization = req'[r].access
                /\ localStorage'.access_token = req'[r].access
          /\ RefreshFailed(r) =>
                /\ localStorage' = EmptyStorage
                /\ req'[r].result.from = "refresh"
          /\ ( /\ req[r].pc = "sent" /\ req[r].attempt = 1
               /\ localStorage = EmptyStorage ) =>
                /\ ~RefreshIssued(r)
                /\ (req'[r].pc = "done" /\ req'[r].result.status = AuthFailure)
                      => /\ req'[r].result = Rejected("request", AuthFailure, 1)
                         /\ localStorage' = EmptyStorage
                         /\ href' = href]_vars

\* A login call made while a session was stored was answered 401, the
\* refresh succeeded and the login call is in flight again with the new
\* token.
C25_Witness ==
    \E r \in Req :
        /\ IsLoginCall(r)
        /\ req[r].pc = "sent"
        /\ req[r].attempt = 2
        /\ req[r].refreshes = 1
        /\ req[r].Authorization = localStorage.access_token

\* C26: whenever the initial auth check is over and user is non-null, the
\* store holds an access token; and a login that rejects leaves user as it
\* was.
C26_AuthenticatedHasToken ==
    [][/\ (~loading' /\ isAuthenticated') => localStorage'.access_token # None
       /\ \A r \in Req :
             (LoginSettled(r) /\ req'[r].result.settled = "rejected")
                => user' = user]_vars

\* C26: the state the failed refresh leaves behind: the store is cleared
\* and the navigation started, while the context still holds the user.
C26_TeardownKeepsUser ==
    ~loading /\ isAuthenticated /\ NavigationPending
             /\ localStorage = EmptyStorage

---------------------------------------------------------------------------
(* The pages: Tenants (pages/Tenants.js) and Register (pages/Register.js) *)

\* The lists of tenants the server can return, bare or paginated.
TenantLists == {"L1", "L2"}
Paginated(list) == "{results:" \o list \o "}"
TenantBodies == {"L1", Paginated("L2")}
\* The list of users the server returns, and the users with role 'tenant'.
UserBodies == {"[tenant,landlord]"}

\* Tenants.js 46: data.results || data
Results(data) ==
    IF \E l \in TenantLists : data = Paginated(l)
    THEN CHOOSE l \in TenantLists : data = Paginated(l)
    ELSE data

\* Tenants.js 63: (data.results || data).filter(u => u.role === 'tenant')
TenantUsers(list) == IF list = "[tenant,landlord]" THEN "[tenant]" ELSE list

\* Modal.js 445-448: api.post('/auth/register/', userData)
register(userData) ==
    [Config("register", "/auth/register/") EXCEPT
        !.method = "POST", !.body = userData]

\* String.prototype.trim on the inputs below.
Trim(text) == IF text = " " THEN "" ELSE text

\* What a user can have typed into the tenant form.
TenantFormData == [user : {"", "7"}, phone : {"", " ", "0712"}]

\* Tenants.js 390-405: the fields validateForm reports
\* (Object.keys(newErrors)); it returns true when there is none.
validateForm(tenant, formData) ==
    (IF tenant = NoTenant /\ formData.user = "" THEN {"user"} ELSE {})
    \cup (IF Trim(formData.phone) = "" THEN {"phone"} ELSE {})

\* What a user can have typed into the registration form.
RegisterFormData ==
    [username : {"", "ann"}, email : {"", "ann", "ann@x.io"},
     password : {"", "short", "longenough"},
     password2 : {"short", "longenough"},
     first_name : {" ", "Ann"}, last_name : {"Lee"}]

\* /\S+@\S+\.\S+/.test(email) on the inputs above.
EmailMatches(email) == email = "ann@x.io"

\* Register.js 52-85: the fields validateForm reports.
registerValidateForm(formData) ==
    (IF Trim(formData.username) = "" THEN {"username"} ELSE {})
    \cup (IF Trim(formData.email) = "" \/ ~EmailMatches(formData.email)
          THEN {"email"} ELSE {})
    \cup (IF formData.password = "" \/ Len(formData.password) < 8
          THEN {"password"} ELSE {})
    \cup (IF formData.password # formData.password2
          THEN {"password2"} ELSE {})
    \cup (IF Trim(formData.first_name) = "" THEN {"first_name"} ELSE {})
    \cup (IF Trim(formData.last_name) = "" THEN {"last_name"} ELSE {})

\* The kinds of request a page has in flight.
IsFetchTenants(q) == q.op = "getAll" /\ q.url = "/tenants/"
IsFetchUsers(q) == q.op = "getAll" /\ q.url = "/users/"
IsSave(q) == q.op \in {"create", "update"}

\* Tenants.js 43-53: fetchTenants sends getAll('tenants').
fetchTenants(ls) == api(getAll("tenants", None), ls)
\* Tenants.js 59-69: fetchUsers sends getAll('users').
fetchUsers(ls) == api(getAll("users", None), ls)

\* The Tenants page as its mount effect leaves it (Tenants.js 24-37), behind
\* ProtectedRoute with a stored session; or the public Register page with
\* its form (Register.js 18-29).
PageInit ==
    /\ route \in {"/tenants", "/register"}
    /\ localStorage = IF route = "/tenants" THEN StoredSession
                                            ELSE EmptyStorage
    /\ user = IF route = "/tenants" THEN "U1" ELSE None
    /\ req = [r \in Req |->
                 IF route = "/tenants" /\ r = 1 THEN fetchTenants(localStorage)
                 ELSE IF route = "/tenants" /\ r = 2
                      THEN fetchUsers(localStorage)
                 ELSE Idle]
    /\ href = "/"
    /\ loading = FALSE
    /\ before = NoSnapshots
    /\ tenants = EmptyList
    /\ users = EmptyList
    /\ pageLoading = (route = "/tenants")
    /\ showModal = FALSE
    /\ editingTenant = NoTenant
    /\ form = NoForm
    /\ dialog = None
    /\ lastFetch = IF route = "/tenants" THEN 1 ELSE 0

\* The page's controls can be used: the Tenants page is past its spinner
\* (Tenants.js 150-156) and no modal covers it.
ListShown == route = "/tenants" /\ ~pageLoading /\ ~showModal

\* Tenants.js 73-76: handleAddNew; the modal mounts a new TenantForm.
handleAddNew ==
    /\ ListShown
    /\ editingTenant' = NoTenant
    /\ showModal' = TRUE
    /\ form' = NoForm
    /\ UNCHANGED <<apiVars, ctx, tenants, users, pageLoading, dialog, route,
                   lastFetch>>

\* Tenants.js 82-85: handleEdit, from the card of a displayed tenant.
handleEdit(id) ==
    /\ ListShown
    /\ tenants # EmptyList
    /\ editingTenant' = id
    /\ showModal' = TRUE
    /\ form' = NoForm
    /\ UNCHANGED <<apiVars, ctx, tenants, users, pageLoading, dialog, route,
                   lastFetch>>

\* Variant: the delete request is sent whatever the dialog answers.
handleDeleteUnconfirmed(r, id, answer) ==
    /\ ListShown
    /\ tenants # EmptyList
    /\ dialog' = answer
    /\ Free(r)
    /\ req' = [req EXCEPT ![r] = api(remove("tenants", id), localStorage)]
    /\ UNCHANGED <<localStorage, href, ctx, tenants, users, pageLoading,
                   showModal, editingTenant, form, route, lastFetch>>

\* Tenants.js 92-95: handleDelete up to its await; `dialog` keeps what
\* window.confirm returned.
handleDelete(r, id, answer) ==
    /\ ListShown
    /\ tenants # EmptyList
    /\ dialog' = answer
    /\ IF answer = "ok"
       THEN /\ Free(r)
            /\ req' = [req EXCEPT ![r] =
                   api(remove("tenants", id), localStorage)]
       ELSE /\ r = 1
            /\ UNCHANGED req
    /\ UNCHANGED <<localStorage, href, ctx, tenants, users, pageLoading,
                   showModal, editingTenant, form, route, lastFetch>>

\* Tenants.js 108-111: handleCloseModal; the TenantForm unmounts.
handleCloseModal ==
    /\ route = "/tenants"
    /\ showModal
    /\ showModal' = FALSE
    /\ editingTenant' = NoTenant
    /\ form' = NoForm
    /\ UNCHANGED <<apiVars, ctx, tenants, users, pageLoading, dialog, route,
                   lastFetch>>

\* The request TenantForm.handleSubmit sends (Tenants.js 422-428).
SaveRequest(tenant) ==
    IF tenant # NoTenant THEN update("tenants", tenant, "data")
                         ELSE create("tenants", "data")

\* Variant: the request is sent whatever validateForm returned.
SubmitUnvalidated(r, newErrors, request) ==
    /\ Free(r)
    /\ form' = [loading |-> TRUE,
                errors |-> [fields |-> newErrors, data |-> None],
                request |-> r]
    /\ req' = [req EXCEPT ![r] = api(request, localStorage)]

\* handleSubmit up to its await (Tenants.js 411-428, Register.js 90-102):
\* validateForm has set the errors; the request goes out only when it
\* reported none, after setLoading(true).
Submit(r, newErrors, request) ==
    IF newErrors # {}
    THEN /\ r = 1
         /\ form' = [form EXCEPT
                !.errors = [fields |-> newErrors, data |-> None]]
         /\ UNCHANGED req
    ELSE /\ Free(r)
         /\ form' = [loading |-> TRUE,
                     errors |-> [fields |-> {}, data |-> None],
                     request |-> r]
         /\ req' = [req EXCEPT ![r] = api(request, localStorage)]

\* Tenants.js 411-428: TenantForm.handleSubmit; the submit button is
\* disabled while loading (567).
handleSubmit(r, formData) ==
    /\ route = "/tenants"
    /\ showModal
    /\ ~form.loading
    /\ Submit(r, validateForm(editingTenant, formData),
              SaveRequest(editingTenant))
    /\ UNCHANGED <<localStorage, href, ctx, tenants, users, pageLoading,
                   showModal, editingTenant, dialog, route, lastFetch>>

\* Register.js 90-102: Register.handleSubmit.
registerHandleSubmit(r, formData) ==
    /\ route = "/register"
    /\ ~form.loading
    /\ Submit(r, registerValidateForm(formData), register("data"))
    /\ UNCHANGED <<localStorage, href, ctx, tenants, users, pageLoading,
                   showModal, editingTenant, dialog, route, lastFetch>>

\* Tenants.js 45-46 and 50-52: fetchTenants after its await, on success:
\* setTenants(data.results || data), then finally setLoading(false).
fetchTenantsFulfilled(r, body) ==
    /\ route = "/tenants"
    /\ req[r].pc = "sent"
    /\ IsFetchTenants(req[r])
    /\ req' = [req EXCEPT ![r] = Settle(@, Fulfilled(@.attempt, body))]
    /\ tenants' = Results(body)
    /\ pageLoading' = FALSE
    /\ UNCHANGED <<localStorage, href, ctx, users, showModal, editingTenant,
                   form, dialog, route, lastFetch>>

\* Tenants.js 61-65: fetchUsers after its await, on success.
fetchUsersFulfilled(r, body) ==
    /\ route = "/tenants"
    /\ req[r].pc = "sent"
    /\ IsFetchUsers(req[r])
    /\ req' = [req EXCEPT ![r] = Settle(@, Fulfilled(@.attempt, body))]
    /\ users' = TenantUsers(Results(body))
    /\ UNCHANGED <<localStorage, href, ctx, tenants, pageLoading, showModal,
                   editingTenant, form, dialog, route, lastFetch>>

\* Tenants.js 95-97: handleDelete after its await, on success: the call
\* settles and fetchTenants() sends the next request.
removeFulfilled(r) ==
    /\ route = "/tenants"
    /\ req[r].pc = "sent"
    /\ req[r].op = "remove"
    /\ req' = [req EXCEPT ![r] = fetchTenants(localStorage)]
    /\ lastFetch' = r
    /\ UNCHANGED <<localStorage, href, ctx, tenants, users, pageLoading,
                   showModal, editingTenant, form, dialog, route>>

\* Tenants.js 430 with 116-119 and 108-111: handleSubmit after its await, on
\* success: onSuccess() is handleSaveSuccess, which closes the modal (the
\* form unmounts) and calls fetchTenants(); setLoading(false) at 438 then
\* finds no mounted form.
saveFulfilled(r) ==
    /\ route = "/tenants"
    /\ req[r].pc = "sent"
    /\ IsSave(req[r])
    /\ req' = [req EXCEPT ![r] = fetchTenants(localStorage)]
    /\ showModal' = FALSE
    /\ editingTenant' = NoTenant
    /\ form' = NoForm
    /\ lastFetch' = r
    /\ UNCHANGED <<localStorage, href, ctx, tenants, users, pageLoading,
                   dialog, route>>

\* Register.js 102-108 and 127-129: register resolved: navigate('/login'),
\* then finally setLoading(false).
registerFulfilled(r) ==
    /\ route = "/register"
    /\ req[r].pc = "sent"
    /\ req[r].op = "register"
    /\ req' = [req EXCEPT ![r] = Settle(@, Fulfilled(@.attempt, "row"))]
    /\ route' = "/login"
    /\ form' = [form EXCEPT !.loading = FALSE, !.request = 0]
    /\ UNCHANGED <<localStorage, href, ctx, tenants, users, pageLoading,
                   showModal, editingTenant, dialog, lastFetch>>

\* Variant: the errors are left as validateForm set them.
FormCatchKeepingErrors(f, r, data) ==
    IF f.request = r THEN [f EXCEPT !.loading = FALSE, !.request = 0] ELSE f

\* Tenants.js 431-439, Register.js 109-129: the catch and finally of
\* handleSubmit in the form that awaits slot r: error.response.data, when
\* there is one, replaces the errors; then setLoading(false).  A form that
\* was unmounted in the meantime keeps nothing.
FormCatch(f, r, data) ==
    IF f.request = r
    THEN [loading |-> FALSE,
          errors |-> IF data # None THEN [fields |-> {}, data |-> data]
                                    ELSE f.errors,
          request |-> 0]
    ELSE f

\* The catch blocks of the page, once the promise of slot r has rejected
\* (Tenants.js 47-52, 66-68, 98-101, 431-439; Register.js 109-129).
Catch(r) ==
    /\ pageLoading' = IF req'[r].pc = "done" /\ IsFetchTenants(req[r])
                      THEN FALSE ELSE pageLoading
    /\ form' = IF req'[r].pc = "done" /\ (IsSave(req[r]) \/ req[r].op = "register")
               THEN FormCatch(form, r, req'[r].result.data)
               ELSE form
    /\ UNCHANGED <<ctx, tenants, users, showModal, editingTenant, dialog,
                   route, lastFetch>>

\* The failures of a request of a page whose session stays valid: a
\* validation error, a server error, no response.  (What a 401 sets off is
\* the recovery agent's part, under Spec and SpecApp; the page sees its end
\* as a resolved or a rejected promise like these.)
PageErrorStatuses == ErrorStatuses \ {AuthFailure}

\* A request of the page fails: the interceptor rejects (Modal.js 416) and
\* the rejection runs the caller's catch.
pageResponseRejected(r, status) ==
    /\ route \in {"/tenants", "/register"}
    /\ responseRejected(r, status)
    /\ Catch(r)

PageNext ==
    \/ handleAddNew
    \/ \E id \in ResourceIds : handleEdit(id)
    \/ \E r \in Req, id \in ResourceIds, answer \in {"ok", "cancel"} :
          handleDelete(r, id, answer)
    \/ handleCloseModal
    \/ \E r \in Req, formData \in TenantFormData : handleSubmit(r, formData)
    \/ \E r \in Req, formData \in RegisterFormData :
          registerHandleSubmit(r, formData)
    \/ \E r \in Req, body \in TenantBodies : fetchTenantsFulfilled(r, body)
    \/ \E r \in Req, body \in UserBodies : fetchUsersFulfilled(r, body)
    \/ \E r \in Req : removeFulfilled(r)
    \/ \E r \in Req : saveFulfilled(r)
    \/ \E r \in Req : registerFulfilled(r)
    \/ \E r \in Req, s \in PageErrorStatuses : pageResponseRejected(r, s)

SpecPage == PageInit /\ [][PageNext]_vars

PageTypeOK == form.request \in 0..NReq

---------------------------------------------------------------------------
(* Claims about the pages *)

\* A call of the page sends a request in slot r.
Issued(r) ==
    /\ req'[r].pc = "sent"
    /\ req[r].pc # "sent" \/ req'[r].op # req[r].op

\* fetchTenants is called in this step.
Refetched == \E q \in Req : Issued(q) /\ IsFetchTenants(req'[q])

\* The save request of slot r resolves / rejects in this step.
SaveFailed(r) == IsSave(req[r]) /\ RequestRejected(r)
SaveSucceeded(r) ==
    /\ IsSave(req[r])
    /\ req[r].pc = "sent"
    /\ req'[r] # req[r]
    /\ ~RequestRejected(r)

\* C27: a step in which validateForm reports errors sends no request and
\* leaves the form open with those errors; a create, update or register
\* request goes out only in a step whose validation reported none.
C27_ValidationGatesSubmission ==
    [][/\ (form'.errors.fields # {} /\ form' # form)
            => /\ req' = req
               /\ showModal' = showModal
               /\ route' = route
       /\ \A r \in Req :
             (Issued(r) /\ (IsSave(req'[r]) \/ req'[r].op = "register"))
                => /\ form'.errors = NoErrors
                   /\ form'.loading
                   /\ form'.request = r]_vars

C27_Witness ==
    /\ route = "/tenants"
    /\ showModal
    /\ form.errors.fields = {"user", "phone"}
    /\ ~form.loading
    /\ \A r \in Req : ~(req[r].pc = "sent" /\ IsSave(req[r]))

\* C28 as stated: after a save succeeds the modal is closed, the editing
\* state cleared and the list refetched; after it fails the modal stays
\* open, nothing is refetched and the error body is the form's errors; the
\* submitting flag is false once the request has settled.
C28_Original ==
    [][\A r \in Req :
         /\ SaveSucceeded(r)
               => /\ ~showModal'
                  /\ editingTenant' = NoTenant
                  /\ Issued(r) /\ IsFetchTenants(req'[r])
                  /\ ~form'.loading
         /\ SaveFailed(r)
               => /\ showModal'
                  /\ ~Refetched
                  /\ form'.errors.data = req'[r].result.data
                  /\ ~form'.loading]_vars

\* C28, amended: the failure half holds for the form that sent the request
\* while it is still mounted; when it was closed in the meantime, the
\* failure changes nothing on the page.
C28_SaveCycle ==
    [][\A r \in Req :
         /\ SaveSucceeded(r)
               => /\ ~showModal'
                  /\ editingTenant' = NoTenant
                  /\ Issued(r) /\ IsFetchTenants(req'[r])
                  /\ form' = NoForm
         /\ (SaveFailed(r) /\ form.request = r)
               => /\ showModal /\ showModal'
                  /\ editingTenant' = editingTenant
                  /\ ~Refetched
                  /\ form.loading /\ ~form'.loading
                  /\ req'[r].result.data # None
                        => form'.errors = [fields |-> {},
                                           data |-> req'[r].result.data]
                  /\ req'[r].result.data = None
                        => form'.errors = form.errors
         /\ (SaveFailed(r) /\ form.request # r)
               => /\ ~Refetched
                  /\ UNCHANGED view]_vars

\* A save has failed with a validation error of the server, and the open
\* form shows it.
C28_Witness ==
    /\ showModal
    /\ ~form.loading
    /\ form.errors.data = ResponseData(400)
    /\ \E r \in Req : /\ req[r].pc = "done"
                      /\ req[r].result.settled = "rejected"
                      /\ req[r].result.status = 400

\* C29: a delete request is sent only in a step in which window.confirm
\* returned true; a declined confirmation sends nothing and leaves the list;
\* a failed delete refetches nothing and leaves the list; the refetch that
\* follows a delete is issued by the step in which the delete resolved.
C29_DeleteIsConfirmed ==
    [][/\ \A r \in Req :
             /\ (Issued(r) /\ req'[r].op = "remove") => dialog' = "ok"
             /\ (req[r].op = "remove" /\ RequestRejected(r))
                   => ~Refetched /\ tenants' = tenants
             /\ (req[r].op = "remove" /\ req[r].pc = "sent"
                   /\ req'[r] # req[r] /\ ~RequestRejected(r))
                   => Issued(r) /\ IsFetchTenants(req'[r])
                        /\ tenants' = tenants
       /\ (dialog' = "cancel" /\ dialog' # dialog)
             => req' = req /\ tenants' = tenants]_vars

C29_Witness ==
    /\ dialog = "ok"
    /\ tenants # EmptyList
    /\ \E r \in Req : req[r].pc = "sent" /\ req[r].op = "remove"

\* No call of fetchTenants is in flight.
NoFetchInFlight ==
    \A q \in Req : ~(req[q].pc = "sent" /\ IsFetchTenants(req[q]))

\* C30: once no list fetch is in flight, the list displayed is the response
\* of the fetch that was issued last.
C30_LatestFetchWins ==
    (/\ route = "/tenants"
     /\ lastFetch # 0
     /\ NoFetchInFlight
     /\ req[lastFetch].pc = "done"
     /\ req[lastFetch].result.settled = "resolved")
        => tenants = Results(req[lastFetch].result.data)

====
